---- MODULE Spec2Model ----
(***************************************************************************)
(* json-to-dynamodb: src/__main__.py.                                      *)
(*                                                                         *)
(* The script parses its arguments, validates the json_data argument,     *)
(* loads a JSON array from a URL or a file (get_json_data) and writes it  *)
(* to a DynamoDB table in batches of batch_size (import_data).            *)
(*                                                                         *)
(* Strings whose characters the code inspects (startswith / endswith) are *)
(* sequences of one-character strings.  The outside world (HTTP server,   *)
(* file system, AWS) answers nondeterministically.                        *)
(***************************************************************************)
EXTENDS Integers, Sequences, FiniteSets, TLC

VARIABLES
    pc,             \* position of the script
    source,         \* args.json_data
    status,         \* response.status_code of the GET (0: no response)
    json_data,      \* the parsed list handed to import_data
    session,        \* "none" | "resolved": lines 39-41 completed
    batches,        \* list of slices built on line 47
    bi,             \* 1-based index of the batch the for loop of line 49 is at
    items,          \* list built on line 51 for the current batch
    ii,             \* 1-based index of the item the for loop of line 53 is at
    open_contexts,  \* number of batch_writer contexts currently entered
    contexts,       \* per batch_writer context entered: the Items put in it
    buffer,         \* Items put in the current context and not yet sent
    table,          \* Items the table service has accepted, in order
    console,        \* what print() has written
    err,            \* class of the exception raised ("none": none)
    uncaught,       \* the exception left the program (traceback)
    io              \* external calls made, in order

vars == <<pc, source, status, json_data, session, batches, bi, items, ii,
          open_contexts, contexts, buffer, table, console, err, uncaught, io>>

-----------------------------------------------------------------------------
(* Bounds of the model *)

\* longest JSON array the loader returns
MaxRecords == 51

\* batch_size = 25
batch_size == 25

-----------------------------------------------------------------------------
(* Helpers *)

Min(a, b) == IF a < b THEN a ELSE b

RECURSIVE Flatten(_)
Flatten(ss) == IF ss = <<>> THEN <<>> ELSE Head(ss) \o Flatten(Tail(ss))

IsPrefix(p, s) == Len(p) <= Len(s) /\ SubSeq(s, 1, Len(p)) = p

CeilDiv(n, d) == IF n % d = 0 THEN n \div d ELSE (n \div d) + 1

\* str.startswith / str.endswith
startswith(s, p) == Len(s) >= Len(p) /\ SubSeq(s, 1, Len(p)) = p
endswith(s, p) == Len(s) >= Len(p) /\ SubSeq(s, Len(s) - Len(p) + 1, Len(s)) = p

http == <<"h", "t", "t", "p">>
dot_json == <<".", "j", "s", "o", "n">>

\* "https://e.com/data.json", "data.json", "data.csv", "http.csv"
UrlSource == http \o <<"s", ":", "/", "/", "e", ".", "c", "o", "m", "/", "d", "a", "t", "a">> \o dot_json
FileSource == <<"d", "a", "t", "a">> \o dot_json
CsvSource == <<"d", "a", "t", "a", ".", "c", "s", "v">>
HttpCsvSource == http \o <<".", "c", "s", "v">>
Sources == {UrlSource, FileSource, CsvSource, HttpCsvSource}


-----------------------------------------------------------------------------
(* The outside world *)

\* status codes a GET may answer with
Statuses == {200, 300, 404, 500}

\* JSON documents: an array of n objects, or text that is not JSON.
\* "distinct" arrays hold n different objects, "repeat" arrays repeat two.
Gens == {"distinct", "repeat"}
Bodies == [wellformed : {TRUE}, n : 0..MaxRecords, gen : Gens]
            \cup {[wellformed |-> FALSE, n |-> 0, gen |-> "distinct"]}

Rec(gen, i) == IF gen = "distinct" THEN [id |-> i] ELSE [id |-> i % 2]

\* json.loads / json.load of a well-formed document
loads(body) == [i \in 1..body.n |-> Rec(body.gen, i)]

\* exceptions the table client raises when a write is sent
WriteErrors == {"ClientError", "EndpointConnectionError"}

\* exceptions boto3.Session / session.resource raise
SessionErrors == {"ProfileNotFound"}

\* the classes an exception is an instance of
Bases(e) ==
    CASE e = "HTTPError" -> {"HTTPError", "RequestException"}
      [] e = "ConnectionError" -> {"ConnectionError", "RequestException"}
      [] e = "ClientError" -> {"ClientError"}
      [] e = "EndpointConnectionError" -> {"EndpointConnectionError", "BotoCoreError"}
      [] e = "ProfileNotFound" -> {"ProfileNotFound", "BotoCoreError"}
      [] e = "JSONDecodeError" -> {"JSONDecodeError", "ValueError"}
      [] e = "FileNotFoundError" -> {"FileNotFoundError", "OSError"}
      [] OTHER -> {e}

\* response.raise_for_status(): HTTPError for 4xx and 5xx
raise_for_status(code) == 400 <= code /\ code < 600

-----------------------------------------------------------------------------
(* Exceptions *)

\* except (ClientError, RequestException) as e
Handled == {"ClientError", "RequestException"}

Caught(e) == Bases(e) \cap Handled # {}

ErrorLine(e) == [msg |-> "Error", count |-> 0, exc |-> e]
SuccessLine(n) == [msg |-> "Successfully imported", count |-> n, exc |-> "none"]

\* An exception raised outside any try: it leaves the program.
RaiseOutside(e) ==
    /\ err' = e
    /\ uncaught' = TRUE
    /\ console' = console
    /\ pc' = "failed"

\* Variant: the success line is printed in a finally clause.
RaiseInTry_finally(e) ==
    /\ err' = e
    /\ uncaught' = ~Caught(e)
    /\ console' = Append(IF Caught(e) THEN Append(console, ErrorLine(e)) ELSE console,
                         SuccessLine(Len(json_data)))
    /\ pc' = "failed"

\* An exception raised inside the try of import_data: the except clause
\* prints it when it is an instance of a handled class.
RaiseInTry(e) ==
    /\ err' = e
    /\ uncaught' = ~Caught(e)
    /\ console' = IF Caught(e) THEN Append(console, ErrorLine(e)) ELSE console
    /\ pc' = "failed"

-----------------------------------------------------------------------------
(* Pure parts of import_data *)

\* range(start, stop, step) for step > 0
RECURSIVE range(_, _, _)
range(start, stop, step) ==
    IF start >= stop THEN <<>> ELSE <<start>> \o range(start + step, stop, step)

\* s[lo:hi] for 0 <= lo <= hi (0-based, hi exclusive, clipped to len(s))
Slice(s, lo, hi) == SubSeq(s, lo + 1, Min(hi, Len(s)))

\* Variant: range(0, len(json_data) - 1, batch_size), losing a last
\* batch of one record.
MakeBatches_shortRange(data) ==
    LET starts == range(0, Len(data) - 1, batch_size)
    IN  [j \in 1..Len(starts) |-> Slice(data, starts[j], starts[j] + batch_size)]

\* Variant: json_data[i:i+batch_size+1], batches overlapping by one record.
MakeBatches_overlap(data) ==
    LET starts == range(0, Len(data), batch_size)
    IN  [j \in 1..Len(starts) |-> Slice(data, starts[j], starts[j] + batch_size + 1)]

\* Variant: range(0, len(json_data) + 1, batch_size), an empty batch for
\* an empty list.
MakeBatches_longRange(data) ==
    LET starts == range(0, Len(data) + 1, batch_size)
    IN  [j \in 1..Len(starts) |-> Slice(data, starts[j], starts[j] + batch_size)]

\* [json_data[i:i+batch_size] for i in range(0, len(json_data), batch_size)]
MakeBatches(data) ==
    LET starts == range(0, Len(data), batch_size)
    IN  [j \in 1..Len(starts) |-> Slice(data, starts[j], starts[j] + batch_size)]

\* {k: v for k, v in item.items()}
ConvertItem(item) == [k \in DOMAIN item |-> item[k]]

\* [{...} for item in batch]
ConvertBatch(batch) == [j \in 1..Len(batch) |-> ConvertItem(batch[j])]

-----------------------------------------------------------------------------
(* The script *)

Init ==
    /\ pc = "main"
    /\ source \in Sources
    /\ status = 0
    /\ json_data = <<>>
    /\ session = "none"
    /\ batches = <<>>
    /\ bi = 1
    /\ items = <<>>
    /\ ii = 1
    /\ open_contexts = 0
    /\ contexts = <<>>
    /\ buffer = <<>>
    /\ table = <<>>
    /\ console = <<>>
    /\ err = "none"
    /\ uncaught = FALSE
    /\ io = <<>>

\* Variant: not startswith("http") or endswith(".json").
ValidFormat_misplacedNot(s) == ~startswith(s, http) \/ endswith(s, dot_json)

\* if not (startswith("http") or endswith(".json")): raise ArgumentError(...)
\* ArgumentError("json_data", ...) itself fails on the str argument, so the
\* exception that leaves the program is an AttributeError.
ValidFormat(s) == startswith(s, http) \/ endswith(s, dot_json)

Validate ==
    /\ pc = "main"
    /\ IF ValidFormat(source)
         THEN /\ pc' = "get_json_data"
              /\ UNCHANGED <<err, uncaught, console>>
         ELSE RaiseOutside("AttributeError")
    /\ UNCHANGED <<source, status, json_data, session, batches, bi, items, ii,
                   open_contexts, contexts, buffer, table, io>>

\* get_json_data, URL branch, and the call of line 74
GetJsonDataUrl ==
    /\ pc = "get_json_data"
    /\ startswith(source, http)
    /\ io' = Append(io, "GET")
    /\ \/ /\ RaiseOutside("ConnectionError")
          /\ UNCHANGED <<status, json_data>>
       \/ \E code \in Statuses, body \in Bodies :
            /\ status' = code
            /\ IF raise_for_status(code)
                 THEN RaiseOutside("HTTPError") /\ UNCHANGED json_data
                 ELSE IF ~body.wellformed
                        THEN RaiseOutside("JSONDecodeError") /\ UNCHANGED json_data
                        ELSE /\ json_data' = loads(body)
                             /\ pc' = "import_data"
                             /\ UNCHANGED <<err, uncaught, console>>
    /\ UNCHANGED <<source, session, batches, bi, items, ii,
                   open_contexts, contexts, buffer, table>>

\* get_json_data, file branch, and the call of line 74
GetJsonDataFile ==
    /\ pc = "get_json_data"
    /\ ~startswith(source, http)
    /\ io' = Append(io, "open")
    /\ \/ /\ RaiseOutside("FileNotFoundError")
          /\ UNCHANGED json_data
       \/ \E body \in Bodies :
            IF ~body.wellformed
              THEN RaiseOutside("JSONDecodeError") /\ UNCHANGED json_data
              ELSE /\ json_data' = loads(body)
                   /\ pc' = "import_data"
                   /\ UNCHANGED <<err, uncaught, console>>
    /\ UNCHANGED <<source, status, session, batches, bi, items, ii,
                   open_contexts, contexts, buffer, table>>

\* import_data, lines 37-47: session, table handle, batches
ImportSetup ==
    /\ pc = "import_data"
    /\ io' = Append(io, "Session")
    /\ \/ /\ \E e \in SessionErrors : RaiseInTry(e)
          /\ UNCHANGED <<session, batches>>
       \/ /\ session' = "resolved"
          /\ batches' = MakeBatches(json_data)
          /\ pc' = "for_batch"
          /\ UNCHANGED <<err, uncaught, console>>
    /\ UNCHANGED <<source, status, json_data, bi, items, ii,
                   open_contexts, contexts, buffer, table>>

\* lines 49-52: next batch, its items, enter table.batch_writer()
EnterBatchWriter ==
    /\ pc = "for_batch"
    /\ bi <= Len(batches)
    /\ items' = ConvertBatch(batches[bi])
    /\ ii' = 1
    /\ open_contexts' = open_contexts + 1
    /\ contexts' = Append(contexts, <<>>)
    /\ buffer' = <<>>
    /\ pc' = "in_batch_writer"
    /\ UNCHANGED <<source, status, json_data, session, batches, bi, table,
                   console, err, uncaught, io>>

\* Variant: put_item is called twice for each Item.
PutItem_twice ==
    /\ pc = "in_batch_writer"
    /\ ii <= Len(items)
    /\ contexts' = [contexts EXCEPT ![Len(contexts)] = @ \o <<items[ii], items[ii]>>]
    /\ buffer' = buffer \o <<items[ii], items[ii]>>
    /\ ii' = ii + 1
    /\ UNCHANGED <<pc, open_contexts, table, err, uncaught, console>>
    /\ UNCHANGED <<source, status, json_data, session, batches, bi, items, io>>

\* lines 53-54: batch_writer.put_item(Item=item).  The writer keeps the
\* Item for sending, or sends what it holds during the call; a send that
\* fails leaves the with block and releases the context.
PutItem ==
    /\ pc = "in_batch_writer"
    /\ ii <= Len(items)
    /\ contexts' = [contexts EXCEPT ![Len(contexts)] = Append(@, items[ii])]
    /\ \/ /\ buffer' = Append(buffer, items[ii])
          /\ ii' = ii + 1
          /\ UNCHANGED <<pc, open_contexts, table, err, uncaught, console>>
       \/ /\ table' = table \o Append(buffer, items[ii])
          /\ buffer' = <<>>
          /\ ii' = ii + 1
          /\ UNCHANGED <<pc, open_contexts, err, uncaught, console>>
       \/ /\ \E e \in WriteErrors : RaiseInTry(e)
          /\ buffer' = <<>>
          /\ open_contexts' = open_contexts - 1
          /\ UNCHANGED <<ii, table>>
    /\ UNCHANGED <<source, status, json_data, session, batches, bi, items, io>>

\* Variant: the context is released without sending what the writer holds.
ExitBatchWriter_noSend ==
    /\ pc = "in_batch_writer"
    /\ ii > Len(items)
    /\ open_contexts' = open_contexts - 1
    /\ buffer' = <<>>
    /\ bi' = bi + 1
    /\ pc' = "for_batch"
    /\ UNCHANGED <<table, err, uncaught, console>>
    /\ UNCHANGED <<source, status, json_data, session, batches, items, ii,
                   contexts, io>>

\* end of the with block: the writer sends what it still holds, then the
\* context is released and the for loop of line 49 advances
ExitBatchWriter ==
    /\ pc = "in_batch_writer"
    /\ ii > Len(items)
    /\ open_contexts' = open_contexts - 1
    /\ buffer' = <<>>
    /\ \/ /\ table' = table \o buffer
          /\ bi' = bi + 1
          /\ pc' = "for_batch"
          /\ UNCHANGED <<err, uncaught, console>>
       \/ /\ \E e \in WriteErrors : RaiseInTry(e)
          /\ UNCHANGED <<table, bi>>
    /\ UNCHANGED <<source, status, json_data, session, batches, items, ii,
                   contexts, io>>

\* Variant: the print is indented into the for loop of line 49.
PrintSuccess_inLoop ==
    /\ pc = "for_batch"
    /\ Len(console) < bi
    /\ console' = Append(console, SuccessLine(Len(json_data)))
    /\ pc' = IF bi > Len(batches) THEN "done" ELSE pc
    /\ UNCHANGED <<source, status, json_data, session, batches, bi, items, ii,
                   open_contexts, contexts, buffer, table, err, uncaught, io>>

\* line 56: print(f"Successfully imported {len(json_data)} items ...")
PrintSuccess ==
    /\ pc = "for_batch"
    /\ bi > Len(batches)
    /\ console' = Append(console, SuccessLine(Len(json_data)))
    /\ pc' = "done"
    /\ UNCHANGED <<source, status, json_data, session, batches, bi, items, ii,
                   open_contexts, contexts, buffer, table, err, uncaught, io>>

Next ==
    \/ Validate
    \/ GetJsonDataUrl
    \/ GetJsonDataFile
    \/ ImportSetup
    \/ EnterBatchWriter
    \/ PutItem
    \/ ExitBatchWriter
    \/ PrintSuccess

Spec == Init /\ [][Next]_vars

\* The script is sequential: whatever statement is next is executed.
FairSpec == Spec /\ WF_vars(Next)


-----------------------------------------------------------------------------
(* Properties *)

Range(f) == {f[x] : x \in DOMAIN f}

\* import_data has been called (its first statement contacts the session)
ImportInvoked == "Session" \in Range(io)

\* the batches 1..k, concatenated
FirstBatches(k) == Flatten(SubSeq(batches, 1, k))

\* every put_item call made so far, in order
Puts == Flatten(contexts)

SuccessPrinted == \E j \in DOMAIN console : console[j].msg = "Successfully imported"

Terminated == pc \in {"done", "failed"}

\* C1: once import_data has built its batches, there are exactly
\* ceil(N / 25) of them for an input of N records, and their
\* concatenation in order is the input list.
C1_BatchesPartitionInput ==
    session = "resolved" =>
        /\ Len(batches) = CeilDiv(Len(json_data), batch_size)
        /\ Flatten(batches) = json_data

C1_Witness ==
    /\ session = "resolved"
    /\ Len(batches) = 3
    /\ Len(json_data) = 2 * batch_size + 1

\* C2: every batch holds between 1 and 25 records; every batch but the
\* last is exactly the 25 consecutive input records at its position,
\* and the last batch is the rest of the input.
C2_BatchSizes ==
    session = "resolved" =>
        \A k \in 1..Len(batches) :
            /\ 1 <= Len(batches[k])
            /\ Len(batches[k]) <= batch_size
            /\ k < Len(batches) =>
                 /\ Len(batches[k]) = batch_size
                 /\ batches[k] = SubSeq(json_data, (k - 1) * batch_size + 1, k * batch_size)
            /\ k = Len(batches) =>
                 batches[k] = SubSeq(json_data, (k - 1) * batch_size + 1, Len(json_data))

C2_Witness ==
    /\ session = "resolved"
    /\ Len(batches) >= 2
    /\ Len(batches[Len(batches)]) < batch_size

\* C3: when import_data finishes with no failure, the put_item calls
\* made across all contexts are the input list in its order, every
\* record has been accepted by the table exactly once, ceil(N / 25)
\* contexts were entered, and for 30 records those are two contexts
\* with 25 and 5 puts.
C3_PutsAreInput ==
    pc = "done" =>
        /\ Puts = json_data
        /\ table = json_data
        /\ Len(contexts) = CeilDiv(Len(json_data), batch_size)
        /\ Len(json_data) = 30 =>
             [k \in 1..Len(contexts) |-> Len(contexts[k])] = <<25, 5>>

C3_Witness ==
    /\ pc = "done"
    /\ Len(json_data) = 30
    /\ json_data[1] # json_data[3]

\* C4: import_data called with an empty list never enters a batch-write
\* context and puts nothing; with the session resolved it raises no
\* error and ends by printing the success line with count 0.
C4_EmptyImport ==
    (ImportInvoked /\ json_data = <<>>) =>
        /\ contexts = <<>>
        /\ open_contexts = 0
        /\ table = <<>>
        /\ session = "resolved" =>
             /\ err = "none"
             /\ pc \in {"for_batch", "done"}
             /\ console = IF pc = "done" THEN <<SuccessLine(0)>> ELSE <<>>

C4_Witness ==
    /\ pc = "done"
    /\ json_data = <<>>
    /\ console = <<SuccessLine(0)>>

C6_NonSuccessStatusStopsRun ==
    (status # 0 /\ ~(200 <= status /\ status < 300)) =>
        /\ pc = "failed"
        /\ err = "HTTPError"
        /\ ~ImportInvoked
        /\ table = <<>>

\* C7: a fetch error, a parse error, or a credential, permission or
\* connectivity error of the table client never leaves the program
\* uncaught: it is caught in import_data and printed.
C7_ErrorsCaughtAndPrinted ==
    err \in {"HTTPError", "ConnectionError", "JSONDecodeError", "ClientError",
             "EndpointConnectionError", "ProfileNotFound"} =>
        /\ ~uncaught
        /\ \E j \in DOMAIN console : console[j] = ErrorLine(err)

\* C8: when a write fails in batch k, batches 1..k-1 are in the table,
\* nothing of batches k+1.. has been put, the puts made are a prefix of
\* the input (none repeated), no context stays open and the success
\* line is not printed.
C8_WriteFailureAbandons ==
    (pc = "failed" /\ session = "resolved") =>
        LET k == Len(contexts) IN
        /\ err \in WriteErrors
        /\ k = bi
        /\ k >= 1
        /\ \A j \in 1..(k - 1) : contexts[j] = batches[j]
        /\ IsPrefix(contexts[k], batches[k])
        /\ IsPrefix(Puts, json_data)
        /\ IsPrefix(FirstBatches(k - 1), table)
        /\ IsPrefix(table, Puts)
        /\ open_contexts = 0
        /\ ~SuccessPrinted

C8_Witness ==
    /\ pc = "failed"
    /\ session = "resolved"
    /\ Len(contexts) = 2
    /\ Len(batches) = 3
    /\ Len(table) > batch_size

\* C9: at most one context is open; inside a context the puts are a
\* prefix of the chunk, each one held or sent; a context is entered
\* only when none is open and every earlier chunk is wholly in the
\* table; a context released without error has put its whole chunk and
\* left all of it in the table.
C9_Step ==
    /\ Len(contexts') > Len(contexts) =>
         /\ open_contexts = 0
         /\ buffer = <<>>
         /\ contexts = SubSeq(batches, 1, Len(contexts))
         /\ table = FirstBatches(Len(contexts))
         /\ Len(contexts') = bi
    /\ (open_contexts' < open_contexts /\ err' = "none") =>
         /\ buffer' = <<>>
         /\ contexts' = SubSeq(batches, 1, Len(contexts))
         /\ table' = FirstBatches(Len(contexts))

C9_ScopedContexts ==
    /\ [](open_contexts \in {0, 1})
    /\ [](open_contexts = 1 =>
            /\ IsPrefix(contexts[Len(contexts)], batches[Len(contexts)])
            /\ table \o buffer = Puts)
    /\ [][C9_Step]_vars

C9_Witness ==
    /\ open_contexts = 1
    /\ Len(contexts) = 2
    /\ buffer # <<>>
    /\ Len(table) > batch_size

\* C10: the run only moves forward through not started, fetching,
\* writing and done / failed; writing starts only from a fetch that
\* returned data; a finished run stays as it is; the success line is
\* printed only in done with every record put; and every run reaches
\* done or failed.
Phase(p) ==
    CASE p = "main" -> 0
      [] p = "get_json_data" -> 1
      [] p \in {"import_data", "for_batch", "in_batch_writer"} -> 2
      [] OTHER -> 3

C10_Step ==
    /\ Phase(pc') >= Phase(pc)
    /\ Phase(pc') <= Phase(pc) + 1 \/ pc' = "failed"
    /\ (Phase(pc') = 2 /\ Phase(pc) # 2) =>
         /\ pc = "get_json_data"
         /\ err' = "none"
         /\ Len(io') = 1
    /\ Terminated => UNCHANGED vars
    /\ (SuccessPrinted' /\ ~SuccessPrinted) => pc' = "done"

C10_PhasesForward ==
    /\ [][C10_Step]_vars
    /\ [](SuccessPrinted => (pc = "done" /\ Puts = json_data /\ table = json_data))
    /\ <>Terminated

C10_Witness ==
    /\ pc = "done"
    /\ Len(batches) >= 2
    /\ SuccessPrinted

====
